---- MODULE Spec2Model ----
(***************************************************************************)
(* Hawaii Shell: the workspace and window lists of DesktopShell, the       *)
(* shell-handler selection of ShellManager and the window chrome of the    *)
(* compositor (WaylandChrome.qml), as state machines.                      *)
(*                                                                         *)
(* Lists are QList values; the model keeps Qt's 0-based indices in every   *)
(* operator that takes or returns an index and stores the list as a TLA+   *)
(* sequence (entry i of the QList is element i+1 of the sequence).         *)
(***************************************************************************)
EXTENDS Integers, Sequences, FiniteSets, TLC

(***************************************************************************)
(* Bounds                                                                  *)
(***************************************************************************)
\* Workspace objects the compositor ever announces.
MaxWorkspaceObjects == 5
\* Shell handler directories installed under hawaii/shells.
MaxHandlers == 3
\* Window objects handed to DesktopShell.
MaxWindows == 2
\* Calls of appendWindow with the same Window object.
MaxAppends == 2
\* Shell surfaces the compositor shows, each in a WaylandChrome.
MaxSurfaces == 2
\* The largest x and y coordinate of a window position.
MaxCoordinate == 1

(***************************************************************************)
(* Values                                                                  *)
(***************************************************************************)
\* Workspace objects, by allocation number.
WorkspaceObjects == 1..MaxWorkspaceObjects
\* A pointer read from outside the list's storage.
Garbage == 0 - 1
\* Window objects.
Windows == 1..MaxWindows
\* A window that is a member of no workspace.
NoWorkspace == 0

\* Shell handlers.  A handler is named by the rank of its internal name in
\* the iteration order of m_handlers, so m_handlers.values() lists the
\* registered handlers in ascending number.
Handlers == 1..MaxHandlers
\* nullptr
NoHandler == 0
\* Values of a handler's "priority" property.
Priorities == {0, 1, 5}

\* Shell surfaces, each with the chrome created for it.
Surfaces == 1..MaxSurfaces
\* null, as a parent surface
NoSurface == 0
\* undefined, as the result of a lookup in output.viewsBySurface
NoItem == 0
\* Values of windowType; Qt.ToolTip stands for every value with no
\* animation of its own.
WindowTypes == {"Qt.Window", "Qt.SubWindow", "Qt.Popup", "Qt.ToolTip"}

VARIABLES
    \* DesktopShell
    m_workspaces,       \* QList<Workspace *>
    allocated,          \* number of Workspace objects created so far
    pendingAdd,         \* add_workspace requests the compositor has not answered
    deleted,            \* Workspace objects that were deleted
    dsStatus,           \* "running", "aborted", "crashed" or "undefined"
    dsOp,               \* the last DesktopShell operation, the list before it and
                        \* the windows of the workspace it removed
    dsEffects,          \* what the last operation did, in order
    notifications,      \* workspaceAdded/workspaceRemoved emitted so far (history)
    m_windows,          \* QList<Window *>
    connections,        \* connections of each window's unmapped signal to windowUnmapped
    windowWorkspace,    \* the workspace each window is a member of
    \* ShellManager
    m_handlers,         \* keys of QHash/QMap m_handlers (the registered handlers)
    registrationOrder,  \* the registered handlers in registerHandler order (history)
    willing,            \* property "willing" of each handler object
    priority,           \* property "priority" of each handler object
    loaded,             \* property "loaded" of each handler object
    m_currentHandler,   \* QObject *m_currentHandler
    smStatus,           \* "running" or "fatal"
    smOp,               \* the last ShellManager operation (history)
    smEffects,          \* what the last operation did, in order
    \* WaylandChrome, one for each shell surface
    chromeState,        \* "alive", the destroy animation that runs, or "destroyed"
    shellWindowType,    \* shellSurface.windowType
    shellParentWlSurface, \* shellSurface.parentWlSurface
    windowType,         \* shellSurfaceItem.windowType
    parentWlSurface,    \* shellSurfaceItem.parentWlSurface
    observed,           \* surfaces whose windowType was saved by an event (history)
    chOp,               \* the last chrome handler that ran (history)
    chEffects,          \* what that handler did, in order
    \* WaylandChrome: minimizing one window
    minimized,          \* shellSurface.minimized
    minimizeAnimation,  \* whether minimizeAnimation runs
    unminimizeAnimation, \* whether unminimizeAnimation runs
    moveItem,           \* position (x, y) of shellSurfaceItem.moveItem
    animateTarget,      \* where moveItem.animateTo drives the position, if anywhere
    moveItemPosition,   \* __private.moveItemPosition
    mzOp,               \* the last minimize handler that ran, with the position then (history)
    mzEffects,          \* what that handler did, in order
    \* Start-up
    shell,              \* the binding of the shell global: "unbound" or "bound"
    phase,              \* "constructed", "synced" (initial round trip done) or "fatal"
    created             \* the objects whose create() has run

dsVars == <<m_workspaces, allocated, pendingAdd, deleted, dsStatus, dsOp, dsEffects,
            notifications, m_windows, connections, windowWorkspace>>
smVars == <<m_handlers, registrationOrder, willing, priority, loaded,
            m_currentHandler, smStatus, smOp, smEffects>>
chVars == <<chromeState, shellWindowType, shellParentWlSurface, windowType,
            parentWlSurface, observed, chOp, chEffects>>
mzVars == <<minimized, minimizeAnimation, unminimizeAnimation, moveItem,
            animateTarget, moveItemPosition, mzOp, mzEffects>>
stVars == <<shell, phase, created>>
vars == <<dsVars, smVars, chVars, mzVars, stVars>>

(***************************************************************************)
(* QList                                                                   *)
(***************************************************************************)
Range(s) == {s[k] : k \in 1..Len(s)}

\* QList::size
Size(list) == Len(list)

\* QList::at(i), 0-based
At(list, i) == list[i + 1]

\* Whether i is an index of the list.
InRange(list, i) == 0 <= i /\ i < Size(list)

TakeAtSwapLast(list, i) ==
    IF i = Size(list) - 1
    THEN SubSeq(list, 1, Size(list) - 1)
    ELSE SubSeq(list, 1, i) \o <<list[Size(list)]>> \o SubSeq(list, i + 2, Size(list) - 1)

\* The list after QList::takeAt(i), for an index of the list.
TakeAt(list, i) == SubSeq(list, 1, i) \o SubSeq(list, i + 2, Size(list))

\* QList::indexOf: the first index holding x, -1 when there is none.
IndexOf(list, x) ==
    IF x \in Range(list)
    THEN (CHOOSE k \in 1..Len(list) :
              list[k] = x /\ \A j \in 1..(k - 1) : list[j] # x) - 1
    ELSE 0 - 1

\* Sequences without repetition over S.
DistinctSeqs(S) ==
    {s \in UNION {[1..k -> S] : k \in 0..Cardinality(S)} :
        \A x, y \in DOMAIN s : x # y => s[x] # s[y]}

(***************************************************************************)
(* Effects                                                                 *)
(***************************************************************************)
Effect(kind, arg) == [kind |-> kind, arg |-> arg]

\* The entries of an effect list of one kind.
OfKind(effects, kind) == SelectSeq(effects, LAMBDA e : e.kind = kind)

(***************************************************************************)
(* DesktopShell                                                            *)
(***************************************************************************)
DsInit ==
    /\ m_workspaces = <<>>
    /\ allocated = 0
    /\ pendingAdd = 0
    /\ deleted = {}
    /\ dsStatus = "running"
    /\ dsOp = [op |-> "none", num |-> 0, pre |-> <<>>, members |-> {}]
    /\ dsEffects = <<>>
    /\ notifications = <<>>
    /\ m_windows = <<>>
    /\ connections = [window \in Windows |-> 0]
    /\ windowWorkspace = [window \in Windows |-> NoWorkspace]

\* DesktopShell::workspacesCount
workspacesCount == Size(m_workspaces)

\* DesktopShell::workspaceAt
workspaceAt(index) == At(m_workspaces, index)

addWorkspaceAppends ==
    /\ dsStatus = "running"
    /\ allocated + pendingAdd < MaxWorkspaceObjects
    /\ LET workspace == allocated + 1
           list == Append(m_workspaces, workspace)
       IN  /\ m_workspaces' = list
           /\ allocated' = workspace
           /\ dsEffects' = <<Effect("workspaceAdded", IndexOf(list, workspace)),
                             Effect("workspacesChanged", 0)>>
    /\ dsOp' = [op |-> "addWorkspace", num |-> 0, pre |-> m_workspaces, members |-> {}]
    /\ UNCHANGED <<pendingAdd, deleted, dsStatus>>
    /\ UNCHANGED <<m_windows, connections, windowWorkspace>>
    /\ UNCHANGED <<smVars, chVars, mzVars, stVars>>

\* DesktopShell::addWorkspace: sends add_workspace to the compositor.
addWorkspace ==
    /\ dsStatus = "running"
    /\ allocated + pendingAdd < MaxWorkspaceObjects
    /\ pendingAdd' = pendingAdd + 1
    /\ dsOp' = [op |-> "addWorkspace", num |-> 0, pre |-> m_workspaces, members |-> {}]
    /\ dsEffects' = <<Effect("request add_workspace", 0)>>
    /\ UNCHANGED <<m_workspaces, allocated, deleted, dsStatus>>
    /\ UNCHANGED <<m_windows, connections, windowWorkspace>>
    /\ UNCHANGED <<smVars, chVars, mzVars, stVars>>

appendWorkspaceEmitsFirst ==
    /\ dsStatus = "running"
    /\ pendingAdd > 0
    /\ LET workspace == allocated + 1
       IN  /\ m_workspaces' = Append(m_workspaces, workspace)
           /\ allocated' = workspace
           /\ pendingAdd' = pendingAdd - 1
           /\ dsOp' = [op |-> "appendWorkspace", num |-> 0, pre |-> m_workspaces, members |-> {}]
           /\ dsEffects' = <<Effect("workspaceAdded", IndexOf(m_workspaces, workspace)),
                             Effect("workspacesChanged", 0)>>
    /\ UNCHANGED <<deleted, dsStatus>>
    /\ UNCHANGED <<m_windows, connections, windowWorkspace>>
    /\ UNCHANGED <<smVars, chVars, mzVars, stVars>>

appendWorkspaceChangedFirst ==
    /\ dsStatus = "running"
    /\ pendingAdd > 0
    /\ LET workspace == allocated + 1
           list == Append(m_workspaces, workspace)
       IN  /\ m_workspaces' = list
           /\ allocated' = workspace
           /\ pendingAdd' = pendingAdd - 1
           /\ dsOp' = [op |-> "appendWorkspace", num |-> 0, pre |-> m_workspaces, members |-> {}]
           /\ dsEffects' = <<Effect("workspacesChanged", 0),
                             Effect("workspaceAdded", IndexOf(list, workspace))>>
    /\ UNCHANGED <<deleted, dsStatus>>
    /\ UNCHANGED <<m_windows, connections, windowWorkspace>>
    /\ UNCHANGED <<smVars, chVars, mzVars, stVars>>

\* DesktopShell::appendWorkspace, called with the Workspace object created
\* for a workspace the compositor announces.
appendWorkspace ==
    /\ dsStatus = "running"
    /\ pendingAdd > 0
    /\ LET workspace == allocated + 1
           list == Append(m_workspaces, workspace)
       IN  /\ m_workspaces' = list
           /\ allocated' = workspace
           /\ pendingAdd' = pendingAdd - 1
           /\ dsOp' = [op |-> "appendWorkspace", num |-> 0, pre |-> m_workspaces, members |-> {}]
           /\ dsEffects' = <<Effect("workspaceAdded", IndexOf(list, workspace)),
                             Effect("workspacesChanged", 0)>>
    /\ UNCHANGED <<deleted, dsStatus>>
    /\ UNCHANGED <<m_windows, connections, windowWorkspace>>
    /\ UNCHANGED <<smVars, chVars, mzVars, stVars>>

WorkspaceDestructorKeepsMembers(workspace) == windowWorkspace

\* Workspace::~Workspace: the windows that were members of the workspace
\* become members of no workspace.
WorkspaceDestructor(workspace) ==
    [window \in Windows |->
        IF windowWorkspace[window] = workspace THEN NoWorkspace
        ELSE windowWorkspace[window]]

removeWorkspaceDeletesFirst(num) ==
    /\ InRange(m_workspaces, num)
    /\ LET workspace == At(m_workspaces, num)
       IN  /\ m_workspaces' = TakeAt(m_workspaces, num)
           /\ deleted' = deleted \cup {workspace}
           /\ windowWorkspace' = WorkspaceDestructor(workspace)
           /\ dsEffects' = <<Effect("delete", workspace),
                             Effect("workspaceRemoved", num)>>
    /\ UNCHANGED dsStatus

\* DesktopShell::removeWorkspace with an index of the list.
removeWorkspaceInRange(num) ==
    /\ InRange(m_workspaces, num)
    /\ LET workspace == At(m_workspaces, num)
       IN  /\ m_workspaces' = TakeAt(m_workspaces, num)
           /\ deleted' = deleted \cup {workspace}
           /\ windowWorkspace' = WorkspaceDestructor(workspace)
           /\ dsEffects' = <<Effect("workspaceRemoved", num),
                             Effect("delete", workspace)>>
    /\ UNCHANGED dsStatus

\* DesktopShell::removeWorkspace with an index outside the list:
\* QList::takeAt has no bounds check of its own.  A build with assertions
\* aborts in Q_ASSERT_X; without them the call reads past the array and
\* moves memory of negative length, which ends the process or leaves the
\* list one slot shorter with a garbage pointer handed to the caller.
removeWorkspaceOutOfRange(num) ==
    /\ ~InRange(m_workspaces, num)
    /\ \/ /\ dsStatus' = "aborted"
          /\ dsEffects' = <<>>
          /\ UNCHANGED <<m_workspaces, deleted, windowWorkspace>>
       \/ /\ dsStatus' = "crashed"
          /\ dsEffects' = <<>>
          /\ UNCHANGED <<m_workspaces, deleted, windowWorkspace>>
       \/ /\ dsStatus' = "undefined"
          /\ m_workspaces # <<>>
          /\ m_workspaces' = IF num < 0 THEN Tail(m_workspaces)
                             ELSE SubSeq(m_workspaces, 1, Size(m_workspaces) - 1)
          /\ dsEffects' = <<Effect("workspaceRemoved", num),
                            Effect("delete", Garbage)>>
          /\ UNCHANGED <<deleted, windowWorkspace>>

\* DesktopShell::removeWorkspace
removeWorkspace(num) ==
    /\ dsStatus = "running"
    /\ dsOp' = [op |-> "removeWorkspace", num |-> num, pre |-> m_workspaces,
                members |-> {window \in Windows :
                                /\ InRange(m_workspaces, num)
                                /\ windowWorkspace[window] = At(m_workspaces, num)}]
    /\ \/ removeWorkspaceInRange(num)
       \/ removeWorkspaceOutOfRange(num)
    /\ UNCHANGED <<allocated, pendingAdd>>
    /\ UNCHANGED <<m_windows, connections>>
    /\ UNCHANGED <<smVars, chVars, mzVars, stVars>>

\* History: the operation's signals are not recorded.
Unlogged == UNCHANGED notifications

\* History: the operation's workspaceAdded and workspaceRemoved signals are
\* recorded in the order of emission.
Logged ==
    notifications' = notifications \o
        SelectSeq(dsEffects', LAMBDA e : e.kind \in {"workspaceAdded", "workspaceRemoved"})

\* The list after QList::removeOne(x).
RemoveOne(list, x) ==
    IF x \in Range(list) THEN TakeAt(list, IndexOf(list, x)) ELSE list

\* DesktopShell::appendWindow
appendWindow(window) ==
    /\ dsStatus = "running"
    /\ connections[window] < MaxAppends
    /\ m_windows' = Append(m_windows, window)
    /\ connections' = [connections EXCEPT ![window] = @ + 1]
    /\ dsOp' = [op |-> "appendWindow", num |-> window, pre |-> m_windows, members |-> {}]
    /\ dsEffects' = <<Effect("connect", window), Effect("windowsChanged", 0)>>
    /\ UNCHANGED <<m_workspaces, allocated, pendingAdd, deleted, dsStatus, windowWorkspace>>
    /\ UNCHANGED <<smVars, chVars, mzVars, stVars>>

\* DesktopShell::windowUnmapped run calls times for the same window.
RECURSIVE windowUnmapped(_, _, _)
windowUnmapped(list, window, calls) ==
    IF calls = 0
    THEN [list |-> list, effects |-> <<>>]
    ELSE LET rest == windowUnmapped(RemoveOne(list, window), window, calls - 1)
         IN  [list |-> rest.list,
              effects |-> <<Effect("windowsChanged", 0)>> \o rest.effects]

\* A window emits unmapped(window): the slot windowUnmapped runs once for
\* each connection appendWindow made for that window.
unmapped(window) ==
    /\ dsStatus = "running"
    /\ connections[window] > 0
    /\ LET r == windowUnmapped(m_windows, window, connections[window])
       IN  /\ m_windows' = r.list
           /\ dsEffects' = r.effects
    /\ dsOp' = [op |-> "unmapped", num |-> window, pre |-> m_windows, members |-> {}]
    /\ UNCHANGED <<m_workspaces, allocated, pendingAdd, deleted, dsStatus,
                   connections, windowWorkspace>>
    /\ UNCHANGED <<smVars, chVars, mzVars, stVars>>

\* assign(window, workspaceIndex): the window leaves the workspace it was a
\* member of and becomes a member of the workspace at the index.
assign(window, index) ==
    /\ dsStatus = "running"
    /\ InRange(m_workspaces, index)
    /\ windowWorkspace' = [windowWorkspace EXCEPT ![window] = At(m_workspaces, index)]
    /\ dsOp' = [op |-> "assign", num |-> index, pre |-> m_workspaces, members |-> {}]
    /\ dsEffects' = <<>>
    /\ UNCHANGED <<m_workspaces, allocated, pendingAdd, deleted, dsStatus,
                   m_windows, connections>>
    /\ UNCHANGED <<smVars, chVars, mzVars, stVars>>

DsNext ==
    \/ addWorkspace /\ Unlogged
    \/ appendWorkspace /\ Unlogged
    \/ \E num \in (0 - 1)..Size(m_workspaces) : removeWorkspace(num) /\ Unlogged

NotificationsNext ==
    \/ addWorkspace /\ Logged
    \/ appendWorkspace /\ Logged
    \/ \E num \in (0 - 1)..Size(m_workspaces) : removeWorkspace(num) /\ Logged

MembershipNext ==
    \/ addWorkspace /\ Unlogged
    \/ appendWorkspace /\ Unlogged
    \/ \E num \in (0 - 1)..Size(m_workspaces) : removeWorkspace(num) /\ Unlogged
    \/ \E window \in Windows : \E index \in 0..(Size(m_workspaces) - 1) :
           assign(window, index) /\ Unlogged

WindowsNext ==
    \/ \E window \in Windows : appendWindow(window) /\ Unlogged
    \/ \E window \in Windows : unmapped(window) /\ Unlogged

(***************************************************************************)
(* ShellManager                                                            *)
(***************************************************************************)
SmInit ==
    /\ m_handlers = {}
    /\ registrationOrder = <<>>
    /\ willing = [h \in Handlers |-> FALSE]
    /\ priority = [h \in Handlers |-> 0]
    /\ loaded = [h \in Handlers |-> FALSE]
    /\ m_currentHandler = NoHandler
    /\ smStatus = "running"
    /\ smOp = [op |-> "none", handler |-> NoHandler]
    /\ smEffects = <<>>

\* property("shell") of a handler
ShellProperty(h) == <<"shell", h>>

compareIgnoresWilling(w, p, left, right) == p[left] < p[right]

\* The compare lambda of updateShell, for property values w and p.
compare(w, p, left, right) ==
    IF w[left] /\ ~w[right]
    THEN TRUE
    ELSE IF ~w[left] /\ w[right]
         THEN FALSE
         ELSE p[left] < p[right]

\* m_handlers.values(): the registered handlers in the map's key order.
RECURSIVE values(_)
values(handlers) ==
    IF handlers = {}
    THEN <<>>
    ELSE LET first == CHOOSE h \in handlers : \A o \in handlers : h <= o
         IN  <<first>> \o values(handlers \ {first})

RECURSIVE min_elementLast(_, _, _)
min_elementLast(w, p, objects) ==
    IF Len(objects) = 1
    THEN objects[1]
    ELSE LET smallest == min_elementLast(w, p, SubSeq(objects, 1, Len(objects) - 1))
             next == objects[Len(objects)]
         IN  IF ~compare(w, p, smallest, next) THEN next ELSE smallest

\* std::min_element over a non-empty list: the first element no other
\* element compares less than.
RECURSIVE min_element(_, _, _)
min_element(w, p, objects) ==
    IF Len(objects) = 1
    THEN objects[1]
    ELSE LET smallest == min_element(w, p, SubSeq(objects, 1, Len(objects) - 1))
             next == objects[Len(objects)]
         IN  IF compare(w, p, next, smallest) THEN next ELSE smallest

\* The outcome of a run of updateShell: the current handler and loaded
\* flags it leaves, whether qFatal ended the process, and its property
\* writes and signals in the order they are made.
Outcome(current, ld, fatal, effects) ==
    [current |-> current, loaded |-> ld, fatal |-> fatal, effects |-> effects]

\* updateShell with no handler registered: qFatal.
NoHandlers(current, ld) ==
    Outcome(current, ld, TRUE, <<Effect("qFatal", NoHandler)>>)

SwitchWithoutSameCheck(handler, current, ld) ==
    LET unloaded == IF current # NoHandler
                    THEN [ld EXCEPT ![current] = FALSE] ELSE ld
    IN  Outcome(handler, [unloaded EXCEPT ![handler] = TRUE], FALSE,
                (IF current # NoHandler
                 THEN <<Effect("loaded := false", current)>> ELSE <<>>)
                \o <<Effect("loaded := true", handler),
                     Effect("shellChanged", ShellProperty(handler))>>)

\* updateShell from its choice of handler on: nothing if it is the current
\* one, else unload the current one, load the chosen one, emit shellChanged.
Switch(handler, current, ld) ==
    IF current = handler
    THEN Outcome(current, ld, FALSE, <<>>)
    ELSE LET unloaded == IF current # NoHandler
                         THEN [ld EXCEPT ![current] = FALSE] ELSE ld
         IN  Outcome(handler, [unloaded EXCEPT ![handler] = TRUE], FALSE,
                     (IF current # NoHandler
                      THEN <<Effect("loaded := false", current)>> ELSE <<>>)
                     \o <<Effect("loaded := true", handler),
                          Effect("shellChanged", ShellProperty(handler))>>)

updateShellKeepsOldLoaded(handlers, w, p, current, ld) ==
    IF handlers = {}
    THEN NoHandlers(current, ld)
    ELSE LET handler == min_element(w, p, values(handlers))
             r == Switch(handler, current, ld)
         IN  Outcome(r.current, [h \in Handlers |-> ld[h] \/ r.loaded[h]], FALSE,
                     SelectSeq(r.effects, LAMBDA e : e.kind # "loaded := false"))

updateShellEmitsFirst(handlers, w, p, current, ld) ==
    IF handlers = {}
    THEN NoHandlers(current, ld)
    ELSE LET handler == min_element(w, p, values(handlers))
             r == Switch(handler, current, ld)
         IN  Outcome(r.current, r.loaded, FALSE,
                     OfKind(r.effects, "shellChanged")
                     \o SelectSeq(r.effects, LAMBDA e : e.kind # "shellChanged"))

updateShellReturnsOnEmpty(handlers, w, p, current, ld) ==
    IF handlers = {}
    THEN Outcome(current, ld, FALSE, <<>>)
    ELSE Switch(min_element(w, p, values(handlers)), current, ld)

\* ShellManager::updateShell, from the registered handlers, their property
\* values, the current handler and the loaded flags.
updateShell(handlers, w, p, current, ld) ==
    IF handlers = {}
    THEN NoHandlers(current, ld)
    ELSE Switch(min_element(w, p, values(handlers)), current, ld)

\* The state after a run of updateShell.
ApplyUpdateShell(r) ==
    /\ m_currentHandler' = r.current
    /\ loaded' = r.loaded
    /\ smEffects' = r.effects
    /\ smStatus' = IF r.fatal THEN "fatal" ELSE "running"

\* The names among dirs that loadHandlers registers: those the map does
\* not contain yet.
NewNames(dirs) == SelectSeq(dirs, LAMBDA name : name \notin m_handlers)

\* ShellManager::loadHandlers over the valid handler directories dirs (in
\* the order QDir lists them), the handlers created for the new ones having
\* the property values w and p: registerHandler for every name the map does
\* not hold yet, then updateShell.
loadHandlers(dirs, w, p) ==
    /\ smStatus = "running"
    /\ LET new == Range(NewNames(dirs))
           handlers == m_handlers \cup new
           w2 == [h \in Handlers |-> IF h \in new THEN w[h] ELSE willing[h]]
           p2 == [h \in Handlers |-> IF h \in new THEN p[h] ELSE priority[h]]
       IN  /\ m_handlers' = handlers
           /\ willing' = w2
           /\ priority' = p2
           /\ ApplyUpdateShell(updateShell(handlers, w2, p2, m_currentHandler, loaded))
    /\ UNCHANGED <<dsVars, chVars, mzVars, stVars>>

willingChangedNoUpdate(h) ==
    /\ smStatus = "running"
    /\ h \in m_handlers
    /\ willing' = [willing EXCEPT ![h] = ~willing[h]]
    /\ smEffects' = <<>>
    /\ UNCHANGED <<m_handlers, priority, loaded, m_currentHandler, smStatus>>
    /\ UNCHANGED <<dsVars, chVars, mzVars, stVars>>

\* A registered handler's "willing" property changes: willingChanged is
\* connected to updateShell by registerHandler.
willingChanged(h) ==
    /\ smStatus = "running"
    /\ h \in m_handlers
    /\ LET w2 == [willing EXCEPT ![h] = ~willing[h]]
       IN  /\ willing' = w2
           /\ ApplyUpdateShell(updateShell(m_handlers, w2, priority, m_currentHandler, loaded))
    /\ UNCHANGED <<m_handlers, priority>>
    /\ UNCHANGED <<dsVars, chVars, mzVars, stVars>>

priorityChangedNoUpdate(h, value) ==
    /\ smStatus = "running"
    /\ h \in m_handlers
    /\ value # priority[h]
    /\ priority' = [priority EXCEPT ![h] = value]
    /\ smEffects' = <<>>
    /\ UNCHANGED <<m_handlers, willing, loaded, m_currentHandler, smStatus>>
    /\ UNCHANGED <<dsVars, chVars, mzVars, stVars>>

\* A registered handler's "priority" property changes: priorityChanged is
\* connected to updateShell by registerHandler.
priorityChanged(h, value) ==
    /\ smStatus = "running"
    /\ h \in m_handlers
    /\ value # priority[h]
    /\ LET p2 == [priority EXCEPT ![h] = value]
       IN  /\ priority' = p2
           /\ ApplyUpdateShell(updateShell(m_handlers, willing, p2, m_currentHandler, loaded))
    /\ UNCHANGED <<m_handlers, willing>>
    /\ UNCHANGED <<dsVars, chVars, mzVars, stVars>>

deregisterHandlerNoUpdate(handler) ==
    /\ smStatus = "running"
    /\ handler \in m_handlers
    /\ m_handlers' = m_handlers \ {handler}
    /\ willing' = [willing EXCEPT ![handler] = FALSE]
    /\ priority' = [priority EXCEPT ![handler] = 0]
    /\ loaded' = [loaded EXCEPT ![handler] = FALSE]
    /\ m_currentHandler' = IF m_currentHandler = handler THEN NoHandler
                           ELSE m_currentHandler
    /\ smEffects' = <<>>
    /\ UNCHANGED smStatus
    /\ UNCHANGED <<dsVars, chVars, mzVars, stVars>>

\* ShellManager::deregisterHandler, the slot of the handler's destroyed
\* signal: the handler leaves the map and, if it was the current one, the
\* current handler is cleared and updateShell runs.  The destroyed object's
\* properties no longer exist.
deregisterHandler(handler) ==
    /\ smStatus = "running"
    /\ handler \in m_handlers
    /\ LET handlers == m_handlers \ {handler}
           w2 == [willing EXCEPT ![handler] = FALSE]
           p2 == [priority EXCEPT ![handler] = 0]
           ld2 == [loaded EXCEPT ![handler] = FALSE]
       IN  /\ m_handlers' = handlers
           /\ willing' = w2
           /\ priority' = p2
           /\ IF m_currentHandler = handler
              THEN ApplyUpdateShell(updateShell(handlers, w2, p2, NoHandler, ld2))
              ELSE /\ loaded' = ld2
                   /\ smEffects' = <<>>
                   /\ UNCHANGED <<m_currentHandler, smStatus>>
    /\ UNCHANGED <<dsVars, chVars, mzVars, stVars>>

\* The orders in which QDir can list handler directories.
DirListings == DistinctSeqs(Handlers)

\* A scan lists the directories of the registered handlers, which are
\* skipped, and after them any new ones, in any order.
Scans == {values(m_handlers) \o new :
             new \in {s \in DirListings : Range(s) \cap m_handlers = {}}}

\* History: the operation that ran last.
Called(op, handler) ==
    /\ smOp' = [op |-> op, handler |-> handler]
    /\ UNCHANGED registrationOrder

SmNext ==
    \/ \E dirs \in Scans :
           \E w \in [Range(dirs) \ m_handlers -> BOOLEAN] :
               \E p \in [Range(dirs) \ m_handlers -> Priorities] :
                   loadHandlers(dirs, w, p) /\ Called("loadHandlers", NoHandler)
    \/ \E h \in Handlers : willingChanged(h) /\ Called("willingChanged", h)
    \/ \E h \in Handlers : \E value \in Priorities :
           priorityChanged(h, value) /\ Called("priorityChanged", h)
    \/ \E h \in Handlers : deregisterHandler(h) /\ Called("deregisterHandler", h)

\* History: the order in which registerHandler inserted the handlers that
\* are registered now.
Registered(names) ==
    /\ registrationOrder' = registrationOrder \o names
    /\ UNCHANGED smOp

Deregistered(handler) ==
    /\ registrationOrder' = SelectSeq(registrationOrder, LAMBDA h : h # handler)
    /\ UNCHANGED smOp

RegistrationNext ==
    \/ \E dirs \in Scans :
           \E w \in [Range(dirs) \ m_handlers -> BOOLEAN] :
               \E p \in [Range(dirs) \ m_handlers -> Priorities] :
                   loadHandlers(dirs, w, p) /\ Registered(NewNames(dirs))
    \/ \E h \in Handlers : willingChanged(h) /\ Registered(<<>>)
    \/ \E h \in Handlers : \E value \in Priorities :
           priorityChanged(h, value) /\ Registered(<<>>)
    \/ \E h \in Handlers : deregisterHandler(h) /\ Deregistered(h)

(***************************************************************************)
(* WaylandChrome                                                           *)
(***************************************************************************)
\* The destroy animations; each ends its chrome in a ScriptAction.
DestroyAnimations ==
    {"topLevelDestroyAnimation", "transientDestroyAnimation", "popupDestroyAnimation"}

\* The value windowType reads as once the shell surface is gone.
NoWindowType == "undefined"

ChInit ==
    /\ chromeState = [surface \in Surfaces |-> "alive"]
    /\ shellWindowType = [surface \in Surfaces |-> "Qt.Window"]
    /\ shellParentWlSurface = [surface \in Surfaces |-> NoSurface]
    /\ windowType = [surface \in Surfaces |-> "Qt.Window"]
    /\ parentWlSurface = [surface \in Surfaces |-> NoSurface]
    /\ observed = {}
    /\ chOp = [op |-> "none", surface |-> NoSurface, item |-> NoItem]
    /\ chEffects = <<>>

\* output.viewsBySurface[surface]: what the lookup can return.  null and the
\* surface of a destroyed chrome have no item; the output, which keeps the
\* map, may or may not hold an item for any other surface.
viewsBySurface(surface) ==
    IF surface = NoSurface \/ chromeState[surface] = "destroyed"
    THEN {NoItem}
    ELSE {surface, NoItem}

giveFocusToParentUnchecked(parentSurfaceItem) ==
    <<Effect("takeFocus", parentSurfaceItem)>>

\* __private.giveFocusToParent, with the item the lookup returned.
giveFocusToParent(parentSurfaceItem) ==
    IF parentSurfaceItem # NoItem
    THEN <<Effect("takeFocus", parentSurfaceItem)>>
    ELSE <<>>

DestroyScriptDestroysFirst(surface, parentSurfaceItem) ==
    <<Effect("destroy", surface)>> \o giveFocusToParent(parentSurfaceItem)

\* __private.giveFocusToParent(); chrome.destroy();
DestroyScript(surface, parentSurfaceItem) ==
    giveFocusToParent(parentSurfaceItem) \o <<Effect("destroy", surface)>>

\* The lookup of giveFocusToParent: by the parent saved in shellSurfaceItem.
lookupParent(surface) == viewsBySurface(parentWlSurface[surface])

\* The destroy animation onSurfaceDestroyed starts for a window type;
\* "none" when the chrome is destroyed at once.
DestroyAnimationOf(type) ==
    CASE type = "Qt.Window" -> "topLevelDestroyAnimation"
      [] type = "Qt.SubWindow" -> "transientDestroyAnimation"
      [] type = "Qt.Popup" -> "popupDestroyAnimation"
      [] OTHER -> "none"

\* Whether the ScriptAction of a destroy animation runs when the animation
\* is started.  popupDestroyAnimation is a ParallelAnimation, which starts
\* all its members, the ScriptAction among them, at once; in the two
\* SequentialAnimations the ScriptAction is the last member.
ScriptActionRunsAtStart(animation) == animation = "popupDestroyAnimation"

\* ShellSurfaceItem.onSurfaceDestroyed.  The shell surface is gone from
\* here on; only what shellSurfaceItem saved is left.
onSurfaceDestroyed(surface) ==
    /\ chromeState[surface] = "alive"
    /\ shellWindowType' = [shellWindowType EXCEPT ![surface] = NoWindowType]
    /\ shellParentWlSurface' = [shellParentWlSurface EXCEPT ![surface] = NoSurface]
    /\ LET animation == DestroyAnimationOf(windowType[surface])
           started == IF animation = "none" THEN <<>>
                      ELSE <<Effect("start", animation)>>
       IN  IF animation # "none" /\ ~ScriptActionRunsAtStart(animation)
           THEN /\ chromeState' = [chromeState EXCEPT ![surface] = animation]
                /\ chEffects' = <<Effect("bufferLocked", surface)>> \o started
                /\ chOp' = [op |-> "surfaceDestroyed", surface |-> surface,
                            item |-> NoItem]
           ELSE \E parentSurfaceItem \in lookupParent(surface) :
                    /\ chromeState' = [chromeState EXCEPT ![surface] = "destroyed"]
                    /\ chEffects' = <<Effect("bufferLocked", surface)>> \o started
                                        \o DestroyScript(surface, parentSurfaceItem)
                    /\ chOp' = [op |-> "surfaceDestroyed", surface |-> surface,
                                item |-> parentSurfaceItem]
    /\ UNCHANGED <<windowType, parentWlSurface, observed>>
    /\ UNCHANGED <<dsVars, smVars, mzVars, stVars>>

\* The ScriptAction of the destroy animation that runs for the chrome.
destroyScriptAction(surface) ==
    /\ chromeState[surface] \in DestroyAnimations
    /\ \E parentSurfaceItem \in lookupParent(surface) :
           /\ chromeState' = [chromeState EXCEPT ![surface] = "destroyed"]
           /\ chEffects' = DestroyScript(surface, parentSurfaceItem)
           /\ chOp' = [op |-> "ScriptAction", surface |-> surface,
                       item |-> parentSurfaceItem]
    /\ UNCHANGED <<shellWindowType, shellParentWlSurface, windowType,
                   parentWlSurface, observed>>
    /\ UNCHANGED <<dsVars, smVars, mzVars, stVars>>

onWindowTypeChangedKeepsFirst(surface) ==
    /\ windowType' = IF surface \in observed THEN windowType
                     ELSE [windowType EXCEPT ![surface] = shellWindowType'[surface]]
    /\ observed' = observed \cup {surface}
    /\ chEffects' = <<>>

\* Connections.onWindowTypeChanged
onWindowTypeChanged(surface) ==
    /\ windowType' = [windowType EXCEPT ![surface] = shellWindowType'[surface]]
    /\ observed' = observed \cup {surface}
    /\ chEffects' = <<>>

\* shellSurface.windowType changes to type and the chrome handles the signal.
windowTypeChanged(surface, type) ==
    /\ chromeState[surface] = "alive"
    /\ type # shellWindowType[surface]
    /\ shellWindowType' = [shellWindowType EXCEPT ![surface] = type]
    /\ onWindowTypeChanged(surface)
    /\ chOp' = [op |-> "windowTypeChanged", surface |-> surface, item |-> NoItem]
    /\ UNCHANGED <<chromeState, shellParentWlSurface, parentWlSurface>>
    /\ UNCHANGED <<dsVars, smVars, mzVars, stVars>>

onParentWlSurfaceChangedSetsType(surface) ==
    /\ parentWlSurface' =
           [parentWlSurface EXCEPT ![surface] = shellParentWlSurface'[surface]]
    /\ windowType' = [windowType EXCEPT ![surface] = "Qt.SubWindow"]
    /\ chEffects' = <<>>

\* Connections.onParentWlSurfaceChanged
onParentWlSurfaceChanged(surface) ==
    /\ parentWlSurface' =
           [parentWlSurface EXCEPT ![surface] = shellParentWlSurface'[surface]]
    /\ UNCHANGED windowType
    /\ chEffects' = <<>>

\* The surfaces a client can name as the parent of a surface: none, or
\* another surface that exists.
Parents(surface) ==
    {NoSurface} \cup {parent \in Surfaces \ {surface} : chromeState[parent] = "alive"}

\* shellSurface.parentWlSurface changes to parent and the chrome handles the
\* signal.
parentWlSurfaceChanged(surface, parent) ==
    /\ chromeState[surface] = "alive"
    /\ parent # shellParentWlSurface[surface]
    /\ shellParentWlSurface' = [shellParentWlSurface EXCEPT ![surface] = parent]
    /\ onParentWlSurfaceChanged(surface)
    /\ chOp' = [op |-> "parentWlSurfaceChanged", surface |-> surface, item |-> NoItem]
    /\ UNCHANGED <<chromeState, shellWindowType, observed>>
    /\ UNCHANGED <<dsVars, smVars, mzVars, stVars>>

ChromeNext ==
    \/ \E surface \in Surfaces : \E type \in WindowTypes :
           windowTypeChanged(surface, type)
    \/ \E surface \in Surfaces : \E parent \in Parents(surface) :
           parentWlSurfaceChanged(surface, parent)
    \/ \E surface \in Surfaces : onSurfaceDestroyed(surface)
    \/ \E surface \in Surfaces : destroyScriptAction(surface)

(***************************************************************************)
(* WaylandChrome: minimize and unminimize                                  *)
(***************************************************************************)
Coordinates == 0..MaxCoordinate

Point(x, y) == [x |-> x, y |-> y]

Points == [x : Coordinates, y : Coordinates]

\* No animateTo is under way.
NoPoint == Point(0 - 1, 0 - 1)

\* The position of taskIconGeometry: Qt.rect(0, 0, 32, 32)
taskIconGeometry == Point(0, 0)

MzInit ==
    /\ minimized = FALSE
    /\ minimizeAnimation = FALSE
    /\ unminimizeAnimation = FALSE
    /\ moveItem = Point(0, 0)
    /\ animateTarget = NoPoint
    /\ moveItemPosition = Point(0, 0)
    /\ mzOp = [op |-> "none", position |-> Point(0, 0)]
    /\ mzEffects = <<>>

\* minimizeAnimation.start().  start() has no effect on an animation that
\* runs.  Else the animation runs from its first member on, the
\* ScriptAction that saves the position and sends the window to the icon.
startMinimizeAnimation ==
    IF minimizeAnimation
    THEN /\ mzEffects' = <<>>
         /\ UNCHANGED <<minimizeAnimation, moveItemPosition, animateTarget>>
    ELSE /\ minimizeAnimation' = TRUE
         /\ moveItemPosition' = Point(moveItem.x, moveItem.y)
         /\ animateTarget' = taskIconGeometry
         /\ mzEffects' = <<Effect("start", "minimizeAnimation"),
                           Effect("moveItemPosition", Point(moveItem.x, moveItem.y)),
                           Effect("animateTo", taskIconGeometry)>>

\* unminimizeAnimation.start(), likewise; its ScriptAction sends the window
\* to the saved position.
startUnminimizeAnimation ==
    IF unminimizeAnimation
    THEN /\ mzEffects' = <<>>
         /\ UNCHANGED <<unminimizeAnimation, animateTarget>>
    ELSE /\ unminimizeAnimation' = TRUE
         /\ animateTarget' = Point(moveItemPosition.x, moveItemPosition.y)
         /\ mzEffects' = <<Effect("start", "unminimizeAnimation"),
                           Effect("animateTo",
                                  Point(moveItemPosition.x, moveItemPosition.y))>>

onMinimizedChangedInverted ==
    IF minimized'
    THEN startUnminimizeAnimation /\ UNCHANGED <<minimizeAnimation, moveItemPosition>>
    ELSE startMinimizeAnimation /\ UNCHANGED unminimizeAnimation

\* Connections.onMinimizedChanged
onMinimizedChanged ==
    IF minimized'
    THEN startMinimizeAnimation /\ UNCHANGED unminimizeAnimation
    ELSE startUnminimizeAnimation /\ UNCHANGED <<minimizeAnimation, moveItemPosition>>

\* shellSurface.minimized changes and the chrome handles the signal.
minimizedChanged ==
    /\ minimized' = ~minimized
    /\ onMinimizedChanged
    /\ mzOp' = [op |-> "minimizedChanged", position |-> moveItem]
    /\ UNCHANGED moveItem
    /\ UNCHANGED <<dsVars, smVars, chVars, stVars>>

\* minimizeAnimation has run to its end.
minimizeAnimationFinished ==
    /\ minimizeAnimation
    /\ minimizeAnimation' = FALSE
    /\ UNCHANGED <<minimized, unminimizeAnimation, moveItem, animateTarget,
                   moveItemPosition, mzOp, mzEffects>>
    /\ UNCHANGED <<dsVars, smVars, chVars, stVars>>

\* unminimizeAnimation has run to its end.
unminimizeAnimationFinished ==
    /\ unminimizeAnimation
    /\ unminimizeAnimation' = FALSE
    /\ UNCHANGED <<minimized, minimizeAnimation, moveItem, animateTarget,
                   moveItemPosition, mzOp, mzEffects>>
    /\ UNCHANGED <<dsVars, smVars, chVars, stVars>>

\* One step of a coordinate towards a value.
Towards(from, to) ==
    IF from < to THEN from + 1 ELSE IF from > to THEN from - 1 ELSE from

\* moveItem.animateTo under way: the position moves towards the target and
\* the move is over when it is there.
animateToStep ==
    /\ animateTarget # NoPoint
    /\ LET next == Point(Towards(moveItem.x, animateTarget.x),
                         Towards(moveItem.y, animateTarget.y))
       IN  /\ moveItem' = next
           /\ animateTarget' = IF next = animateTarget THEN NoPoint ELSE animateTarget
    /\ UNCHANGED <<minimized, minimizeAnimation, unminimizeAnimation,
                   moveItemPosition, mzOp, mzEffects>>
    /\ UNCHANGED <<dsVars, smVars, chVars, stVars>>

\* The user moves the window that is shown (onMoveRequested, startMove).
windowMoved(position) ==
    /\ ~minimized
    /\ animateTarget = NoPoint
    /\ position # moveItem
    /\ moveItem' = position
    /\ UNCHANGED <<minimized, minimizeAnimation, unminimizeAnimation, animateTarget,
                   moveItemPosition, mzOp, mzEffects>>
    /\ UNCHANGED <<dsVars, smVars, chVars, stVars>>

MinimizeNext ==
    \/ minimizedChanged
    \/ minimizeAnimationFinished
    \/ unminimizeAnimationFinished
    \/ animateToStep
    \/ \E position \in Points : windowMoved(position)

(***************************************************************************)
(* Start-up                                                                *)
(***************************************************************************)
\* The shell global is bound and the initial round trip is over; no
\* create() has run.
StInit ==
    /\ shell = "bound"
    /\ phase = "synced"
    /\ created = {}

\* The state the constructors leave: the registry listener is set up and
\* the shell global is not bound yet.
StConstructed ==
    /\ shell = "unbound"
    /\ phase = "constructed"
    /\ created = {}

\* The registry announces the shell global and the listener binds it.
shellAnnounced ==
    /\ phase = "constructed"
    /\ shell = "unbound"
    /\ shell' = "bound"
    /\ UNCHANGED <<phase, created>>
    /\ UNCHANGED <<dsVars, smVars, chVars, mzVars>>

roundTripCompletedUnchecked ==
    /\ phase = "constructed"
    /\ phase' = "synced"
    /\ UNCHANGED <<shell, created>>
    /\ UNCHANGED <<dsVars, smVars, chVars, mzVars>>

\* The initial round trip of the registry is over: a fatal condition if the
\* shell global was not bound in it.
roundTripCompleted ==
    /\ phase = "constructed"
    /\ phase' = IF shell = "bound" THEN "synced" ELSE "fatal"
    /\ UNCHANGED <<shell, created>>
    /\ UNCHANGED <<dsVars, smVars, chVars, mzVars>>

\* The effects of count calls of addWorkspace.
RECURSIVE AddWorkspaceRequests(_)
AddWorkspaceRequests(count) ==
    IF count = 0 THEN <<>>
    ELSE <<Effect("request add_workspace", 0)>> \o AddWorkspaceRequests(count - 1)

\* The list and the effects after appendWorkspace ran for count new
\* Workspace objects, the first of them being object first.
RECURSIVE AppendWorkspaces(_, _, _)
AppendWorkspaces(list, first, count) ==
    IF count = 0
    THEN [list |-> list, effects |-> <<>>]
    ELSE LET appended == Append(list, first)
             rest == AppendWorkspaces(appended, first + 1, count - 1)
         IN  [list |-> rest.list,
              effects |-> <<Effect("workspaceAdded", IndexOf(appended, first)),
                            Effect("workspacesChanged", 0)>> \o rest.effects]

DesktopShell_createReadyFirst(answered) ==
    /\ phase = "synced"
    /\ dsStatus = "running"
    /\ "DesktopShell" \notin created
    /\ allocated + pendingAdd + 4 <= MaxWorkspaceObjects
    /\ LET r == AppendWorkspaces(m_workspaces, allocated + 1, answered)
       IN  /\ m_workspaces' = r.list
           /\ dsEffects' = <<Effect("request desktop_ready", 0)>>
                               \o AddWorkspaceRequests(4) \o r.effects
    /\ allocated' = allocated + answered
    /\ pendingAdd' = pendingAdd + 4 - answered
    /\ dsOp' = [op |-> "create", num |-> answered, pre |-> m_workspaces, members |-> {}]
    /\ created' = created \cup {"DesktopShell"}
    /\ UNCHANGED <<deleted, dsStatus, m_windows, connections, windowWorkspace>>
    /\ UNCHANGED <<shell, phase>>
    /\ UNCHANGED <<smVars, chVars, mzVars>>

\* DesktopShell::create, run once the start-up has the shell global: four
\* calls of addWorkspace, then the pending events are processed, among them
\* the compositor's announcements of answered of the four workspaces, then
\* ready() sends desktop_ready.
DesktopShell_create(answered) ==
    /\ phase = "synced"
    /\ dsStatus = "running"
    /\ "DesktopShell" \notin created
    /\ allocated + pendingAdd + 4 <= MaxWorkspaceObjects
    /\ LET r == AppendWorkspaces(m_workspaces, allocated + 1, answered)
       IN  /\ m_workspaces' = r.list
           /\ dsEffects' = AddWorkspaceRequests(4) \o r.effects
                               \o <<Effect("request desktop_ready", 0)>>
    /\ allocated' = allocated + answered
    /\ pendingAdd' = pendingAdd + 4 - answered
    /\ dsOp' = [op |-> "create", num |-> answered, pre |-> m_workspaces, members |-> {}]
    /\ created' = created \cup {"DesktopShell"}
    /\ UNCHANGED <<deleted, dsStatus, m_windows, connections, windowWorkspace>>
    /\ UNCHANGED <<shell, phase>>
    /\ UNCHANGED <<smVars, chVars, mzVars>>

\* ShellManager::setup: loadHandlers, once, before create().
setup(dirs, w, p) ==
    /\ phase = "synced"
    /\ m_handlers = {}
    /\ "ShellManager" \notin created
    /\ loadHandlers(dirs, w, p)

\* ShellManager::create, run after setup() left a current handler.
ShellManager_create ==
    /\ phase = "synced"
    /\ smStatus = "running"
    /\ m_currentHandler # NoHandler
    /\ "ShellManager" \notin created
    /\ smEffects' = <<Effect("connect shell", "prepareLockSurface"),
                      Effect("connect shell", "cursorChanged"),
                      Effect("connect", "shellChanged"),
                      Effect("addWorkspaces", 4),
                      Effect("setShell", ShellProperty(m_currentHandler)),
                      Effect("ready", 0)>>
    /\ created' = created \cup {"ShellManager"}
    /\ UNCHANGED <<m_handlers, willing, priority, loaded, m_currentHandler, smStatus>>
    /\ UNCHANGED <<shell, phase>>
    /\ UNCHANGED <<dsVars, chVars, mzVars>>

StartupNext ==
    \/ shellAnnounced
    \/ roundTripCompleted
    \/ \E answered \in 0..4 : DesktopShell_create(answered) /\ Unlogged
    \/ phase = "synced" /\ appendWorkspace /\ Unlogged
    \/ \E dirs \in Scans :
           \E w \in [Range(dirs) \ m_handlers -> BOOLEAN] :
               \E p \in [Range(dirs) \ m_handlers -> Priorities] :
                   setup(dirs, w, p) /\ Called("loadHandlers", NoHandler)
    \/ ShellManager_create /\ Called("create", NoHandler)

(***************************************************************************)
(* Specifications                                                          *)
(***************************************************************************)
Init == DsInit /\ SmInit /\ ChInit /\ MzInit /\ StInit

\* The state the constructors leave.
Constructed == DsInit /\ SmInit /\ ChInit /\ MzInit /\ StConstructed

\* The workspace list of DesktopShell.
SpecWorkspaces == Init /\ [][DsNext]_vars

\* The workspace list of DesktopShell, with the signals emitted so far
\* recorded.
SpecNotifications == Init /\ [][NotificationsNext]_vars

\* The workspace list of DesktopShell and the workspace membership of windows.
SpecMembership == Init /\ [][MembershipNext]_vars

\* The window list of DesktopShell.
SpecWindows == Init /\ [][WindowsNext]_vars

\* The chromes of the compositor's shell surfaces.
SpecChrome == Init /\ [][ChromeNext]_vars

\* SpecChrome with the destroy animations running to their end: a started
\* SequentialAnimation is advanced by the animation timer until its last
\* member, the ScriptAction, has run, and nothing in the chrome stops it.
SpecChromeLive ==
    /\ Init
    /\ [][ChromeNext]_vars
    /\ \A surface \in Surfaces : WF_vars(destroyScriptAction(surface))

\* One chrome's minimize and unminimize animations.
SpecMinimize == Init /\ [][MinimizeNext]_vars

\* The start-up: the registry's initial round trip, then setup and create.
SpecStartup == Constructed /\ [][StartupNext]_vars

\* The handler selection of ShellManager, with the last operation recorded.
SpecShellManager == Init /\ [][SmNext]_vars

\* The handler selection of ShellManager, with the order of registration
\* recorded.
SpecRegistration == Init /\ [][RegistrationNext]_vars

(***************************************************************************)
(* Workspace list                                                          *)
(***************************************************************************)
\* The last operation was removeWorkspace with an index outside the list
\* it was called on.
RemovedOutOfRange ==
    dsOp.op = "removeWorkspace" /\ ~InRange(dsOp.pre, dsOp.num)

\* The last operation was removeWorkspace with an index of the list it was
\* called on.
RemovedInRange ==
    dsOp.op = "removeWorkspace" /\ InRange(dsOp.pre, dsOp.num)

\* C1: removeWorkspace(index) with an index outside [0, number of
\* workspaces) fails and leaves the shell running with its state as it
\* was: the list unchanged, no workspace deleted, no workspaceRemoved
\* emitted.
C1_OutOfRangeMutatesNothing ==
    RemovedOutOfRange =>
        /\ dsStatus = "running"
        /\ m_workspaces = dsOp.pre
        /\ OfKind(dsEffects, "delete") = <<>>
        /\ OfKind(dsEffects, "workspaceRemoved") = <<>>

\* C2: the workspace collection has no index gaps: every index in
\* 0..workspacesCount-1 holds a live workspace, each workspace once.  A
\* removeWorkspace(i) with an index of the list leaves the workspace
\* formerly at j < i at j and the one formerly at j > i at j - 1, and an
\* append leaves every earlier entry at its index.
C2_NoIndexGaps ==
    dsStatus = "running" =>
        /\ \A index \in 0..(workspacesCount - 1) :
               /\ workspaceAt(index) \in WorkspaceObjects \ deleted
               /\ IndexOf(m_workspaces, workspaceAt(index)) = index
        /\ RemovedInRange =>
               /\ workspacesCount = Size(dsOp.pre) - 1
               /\ \A j \in 0..(Size(dsOp.pre) - 1) :
                      /\ j < dsOp.num => workspaceAt(j) = At(dsOp.pre, j)
                      /\ j > dsOp.num => workspaceAt(j - 1) = At(dsOp.pre, j)
        /\ dsOp.op = "appendWorkspace" =>
               /\ workspacesCount = Size(dsOp.pre) + 1
               /\ \A j \in 0..(Size(dsOp.pre) - 1) : workspaceAt(j) = At(dsOp.pre, j)

\* A workspace was removed from the middle of a list of at least three,
\* after an earlier removal and a later append.
C2_Witness ==
    /\ dsStatus = "running"
    /\ RemovedInRange
    /\ Size(dsOp.pre) >= 3
    /\ 0 < dsOp.num /\ dsOp.num < Size(dsOp.pre) - 1
    /\ \E j \in 0..(Size(dsOp.pre) - 2) : At(dsOp.pre, j) + 1 < At(dsOp.pre, j + 1)

(***************************************************************************)
(* Shell handler selection                                                 *)
(***************************************************************************)
\* The process runs and a handler is current.
HasCurrent == smStatus = "running" /\ m_currentHandler # NoHandler

\* Two handlers with the same willingness and the same priority.
Tied(h, o) == willing[h] = willing[o] /\ priority[h] = priority[o]

\* The shellChanged signals of the last operation.
ShellChanged == OfKind(smEffects, "shellChanged")

\* C3: for every non-empty set of registered candidates, the candidate h
\* that one evaluation of updateShell leaves current is such that no other
\* candidate is willing while h is not, and no candidate as willing as h has
\* a strictly lower priority value.
C3_WillingThenLowerPriority ==
    (smStatus = "running" /\ m_handlers # {}) =>
        LET h == updateShell(m_handlers, willing, priority,
                             m_currentHandler, loaded).current
        IN  /\ h \in m_handlers
            /\ \A o \in m_handlers :
                   /\ ~(willing[o] /\ ~willing[h])
                   /\ willing[o] = willing[h] => priority[h] <= priority[o]

\* An evaluation left a willing handler current although an unwilling one
\* has a lower priority value, and a handler as willing as it has a higher
\* one.
C3_Witness ==
    /\ HasCurrent
    /\ smOp.op # "none"
    /\ m_currentHandler = updateShell(m_handlers, willing, priority,
                                      m_currentHandler, loaded).current
    /\ \E o \in m_handlers :
           ~willing[o] /\ willing[m_currentHandler]
           /\ priority[o] < priority[m_currentHandler]
    /\ \E o \in m_handlers :
           willing[o] /\ priority[o] > priority[m_currentHandler]

\* C4 as stated: among the registered candidates that tie with the current
\* handler on willingness and priority, the current handler is the one
\* registered first.
C4_TieGoesToFirstRegistered ==
    HasCurrent =>
        \A o \in m_handlers :
            Tied(o, m_currentHandler) =>
                IndexOf(registrationOrder, m_currentHandler)
                    <= IndexOf(registrationOrder, o)

\* C4, amended: among the registered candidates that tie with the current
\* handler on willingness and priority, the current handler is the first
\* in the iteration order of m_handlers, whatever the order of registration.
C4_TieGoesToFirstInMapOrder ==
    HasCurrent =>
        \A o \in m_handlers :
            Tied(o, m_currentHandler) =>
                IndexOf(values(m_handlers), m_currentHandler)
                    <= IndexOf(values(m_handlers), o)

\* The current handler ties with a handler that was registered before it.
C4_Witness ==
    /\ HasCurrent
    /\ \E o \in m_handlers \ {m_currentHandler} :
           /\ Tied(o, m_currentHandler)
           /\ IndexOf(registrationOrder, o)
                  < IndexOf(registrationOrder, m_currentHandler)

\* Exactly a and b are registered, b willing with priority 5, a with the
\* given willingness and priority.
Candidates(a, b, willingA, priorityA) ==
    /\ smStatus = "running"
    /\ m_handlers = {a, b}
    /\ willing[a] = willingA /\ priority[a] = priorityA
    /\ willing[b] /\ priority[b] = 5

\* C5: from a (unwilling, priority 1) and b (willing, priority 5) with b
\* current, making a willing and giving it priority 0, in either order,
\* ends with a current, and the two re-evaluations together emit one
\* shellChanged: the step that makes a willing emits it and switches to a,
\* the step that changes the priority emits none and switches nothing.
C5_FlipSwitchesOnce ==
    [][\A a, b \in Handlers :
        /\ (Candidates(a, b, FALSE, 1) /\ m_currentHandler = b
                /\ Candidates(a, b, TRUE, 1)')
            => (m_currentHandler' = a /\ Len(ShellChanged') = 1)
        /\ (Candidates(a, b, TRUE, 1) /\ m_currentHandler = a
                /\ Candidates(a, b, TRUE, 0)')
            => (m_currentHandler' = a /\ Len(ShellChanged') = 0)
        /\ (Candidates(a, b, FALSE, 1) /\ m_currentHandler = b
                /\ Candidates(a, b, FALSE, 0)')
            => (m_currentHandler' = b /\ Len(ShellChanged') = 0)
        /\ (Candidates(a, b, FALSE, 0) /\ m_currentHandler = b
                /\ Candidates(a, b, TRUE, 0)')
            => (m_currentHandler' = a /\ Len(ShellChanged') = 1)
      ]_vars

\* a (priority 0) has just become willing next to b (willing, priority 5),
\* b was unloaded and a is current.
C5_Witness ==
    \E a, b \in Handlers :
        /\ a # b
        /\ Candidates(a, b, TRUE, 0)
        /\ smOp = [op |-> "willingChanged", handler |-> a]
        /\ m_currentHandler = a
        /\ smEffects = <<Effect("loaded := false", b),
                         Effect("loaded := true", a),
                         Effect("shellChanged", ShellProperty(a))>>

\* C6: when updateShell changes the current handler from p to n, it sets
\* p.loaded to false, then n.loaded to true, then emits one shellChanged
\* carrying n's shell name, and nothing else.
C6_UnloadLoadThenNotify ==
    [][\A p, n \in Handlers :
        (/\ m_currentHandler = p
         /\ p \in m_handlers'
         /\ m_currentHandler' = n
         /\ n # p)
        => /\ smEffects' = <<Effect("loaded := false", p),
                             Effect("loaded := true", n),
                             Effect("shellChanged", ShellProperty(n))>>
           /\ ~loaded'[p]
           /\ loaded'[n]
      ]_vars

\* The last operation unloaded one handler and loaded another.
C6_Witness ==
    /\ HasCurrent
    /\ Len(smEffects) = 3
    /\ smEffects[1].kind = "loaded := false"
    /\ smEffects[1].arg # m_currentHandler
    /\ smEffects[3] = Effect("shellChanged", ShellProperty(m_currentHandler))

\* C7: at most one registered candidate has loaded = true, and if a
\* current handler is set it is that candidate.
C7_AtMostOneLoaded ==
    /\ Cardinality({h \in m_handlers : loaded[h]}) <= 1
    /\ m_currentHandler # NoHandler =>
           /\ loaded[m_currentHandler]
           /\ \A h \in m_handlers : loaded[h] => h = m_currentHandler

\* Three candidates are registered and the handler that was current before
\* the last operation is still registered, no longer loaded.
C7_Witness ==
    /\ HasCurrent
    /\ Cardinality(m_handlers) >= 3
    /\ \E h \in m_handlers \ {m_currentHandler} :
           Effect("loaded := false", h) \in Range(smEffects) /\ ~loaded[h]

\* C8: an evaluation with no candidate registered (every step that leaves
\* the map empty ends in one: loadHandlers finding no handler, the
\* deregistration of the last handler) ends in the fatal state and selects
\* nothing.
C8_NoCandidateIsFatal ==
    [][m_handlers' = {} =>
        /\ smStatus' = "fatal"
        /\ smEffects' = <<Effect("qFatal", NoHandler)>>
        /\ m_currentHandler' = NoHandler
        /\ \A h \in Handlers : ~loaded'[h]
      ]_vars

\* The last remaining handler, which was current, was deregistered.
C8_Witness ==
    /\ smStatus = "fatal"
    /\ smOp.op = "deregisterHandler"
    /\ m_handlers = {}

\* C9: deregisterHandler(h) with h current and another candidate
\* registered re-selects: the current handler is then a registered
\* candidate other than h, it is loaded, and one shellChanged was emitted,
\* for it.
C9_DeregisterCurrentReselects ==
    [][\A h \in Handlers :
        (/\ m_currentHandler = h
         /\ h \in m_handlers
         /\ h \notin m_handlers'
         /\ m_handlers' # {})
        => /\ smStatus' = "running"
           /\ m_currentHandler' \in m_handlers'
           /\ m_currentHandler' # h
           /\ loaded'[m_currentHandler']
           /\ ShellChanged' =
                  <<Effect("shellChanged", ShellProperty(m_currentHandler'))>>
      ]_vars

\* The current handler was deregistered while two others were registered.
C9_Witness ==
    /\ HasCurrent
    /\ smOp.op = "deregisterHandler"
    /\ Cardinality(m_handlers) >= 2
    /\ Len(ShellChanged) = 1

\* C10: once an operation has been processed, the current handler is in
\* the map of registered candidates and is the candidate the selection
\* picks from the map as it is.
C10_CurrentIsTheSelection ==
    (smStatus = "running" /\ smOp.op # "none") =>
        /\ m_currentHandler \in m_handlers
        /\ m_currentHandler =
               min_element(willing, priority, values(m_handlers))

\* A handler other than the current one was deregistered, without a
\* re-evaluation, and two candidates remain.
C10_Witness ==
    /\ HasCurrent
    /\ smOp.op = "deregisterHandler"
    /\ smEffects = <<>>
    /\ Cardinality(m_handlers) >= 2

(***************************************************************************)
(* Workspace notifications                                                 *)
(***************************************************************************)
\* C11: a removeWorkspace(i) with an index of the list emits exactly one
\* workspaceRemoved, carrying i, and emits it before the removed Workspace
\* object is deleted; workspaceRemoved is emitted by nothing but a
\* removeWorkspace that took an entry out of the list.
C11_RemovedNotifiedBeforeDelete ==
    /\ RemovedInRange =>
           dsEffects = <<Effect("workspaceRemoved", dsOp.num),
                         Effect("delete", At(dsOp.pre, dsOp.num))>>
    /\ OfKind(dsEffects, "workspaceRemoved") # <<>> =>
           /\ dsOp.op = "removeWorkspace"
           /\ workspacesCount = Size(dsOp.pre) - 1
           /\ Size(OfKind(dsEffects, "workspaceRemoved")) = 1

C11_Witness ==
    /\ RemovedInRange
    /\ dsOp.num = 1
    /\ At(dsOp.pre, 1) \in deleted
    /\ OfKind(dsEffects, "workspaceRemoved") = <<Effect("workspaceRemoved", 1)>>

\* C12 as stated: addWorkspace() appends a Workspace at the end of the
\* collection (one entry more, every earlier entry at its index) and emits
\* workspaceAdded with the new workspace's index.
C12_AddWorkspaceAppends ==
    dsOp.op = "addWorkspace" =>
        /\ workspacesCount = Size(dsOp.pre) + 1
        /\ \A j \in 0..(Size(dsOp.pre) - 1) : workspaceAt(j) = At(dsOp.pre, j)
        /\ OfKind(dsEffects, "workspaceAdded") = <<Effect("workspaceAdded", Size(dsOp.pre))>>

\* C12, amended: addWorkspace() only sends the add_workspace request: it
\* leaves the collection as it was and emits nothing.  appendWorkspace,
\* run for the workspace the compositor then announces, appends that
\* Workspace at the end (one entry more, every earlier entry at its index)
\* and emits workspaceAdded with the new workspace's index.
C12_AppendWorkspaceAppends ==
    /\ dsOp.op = "addWorkspace" =>
           /\ m_workspaces = dsOp.pre
           /\ dsEffects = <<Effect("request add_workspace", 0)>>
    /\ dsOp.op = "appendWorkspace" =>
           /\ m_workspaces = Append(dsOp.pre, allocated)
           /\ allocated \notin Range(dsOp.pre)
           /\ OfKind(dsEffects, "workspaceAdded") = <<Effect("workspaceAdded", Size(dsOp.pre))>>

C12_Witness ==
    /\ dsOp.op = "appendWorkspace"
    /\ Size(dsOp.pre) >= 1
    /\ pendingAdd >= 1
    /\ workspaceAt(Size(dsOp.pre)) = allocated

\* The number of workspaces the signals before position p of the log add up
\* to: one more for each workspaceAdded, one less for each workspaceRemoved.
CountBefore(log, p) ==
    Cardinality({k \in 1..(p - 1) : log[k].kind = "workspaceAdded"})
        - Cardinality({k \in 1..(p - 1) : log[k].kind = "workspaceRemoved"})

\* The signals of the scenario, in order.
ScenarioNotifications ==
    <<Effect("workspaceAdded", 0), Effect("workspaceAdded", 1),
      Effect("workspaceAdded", 2), Effect("workspaceAdded", 3),
      Effect("workspaceRemoved", 1)>>

\* The last operation was the first removal, removeWorkspace(1), after four
\* calls of addWorkspace, on a list that had an index 2 for W1's workspace.
ScenarioRan ==
    /\ dsStatus = "running"
    /\ dsOp.op = "removeWorkspace"
    /\ dsOp.num = 1
    /\ allocated + pendingAdd = 4
    /\ Size(dsOp.pre) >= 3
    /\ deleted = {At(dsOp.pre, 1)}

\* C13 as stated: after four addWorkspace operations, W1 assigned to the
\* workspace at index 2 and removeWorkspace(1), W1's workspace is at index 1
\* and the signals emitted are workspaceAdded(0), workspaceAdded(1),
\* workspaceAdded(2), workspaceAdded(3), workspaceRemoved(1), in that order.
C13_ScenarioAsStated ==
    ScenarioRan =>
        /\ IndexOf(m_workspaces, At(dsOp.pre, 2)) = 1
        /\ notifications = ScenarioNotifications

\* C13, amended: when each of the four addWorkspace requests was answered by
\* the compositor (appendWorkspace ran for it) before removeWorkspace(1),
\* W1's workspace, which was at index 2, is at index 1 and the signals
\* emitted are workspaceAdded(0), workspaceAdded(1), workspaceAdded(2),
\* workspaceAdded(3), workspaceRemoved(1), in that order.  In general the
\* signals are emitted in the order in which appendWorkspace and
\* removeWorkspace run, each carrying the index valid at that time: a
\* workspaceAdded carries the number of workspaces there were before it, a
\* workspaceRemoved an index of the list before it.
C13_ScenarioOnceAnnounced ==
    dsStatus = "running" =>
        /\ (ScenarioRan /\ pendingAdd = 0) =>
               /\ IndexOf(m_workspaces, At(dsOp.pre, 2)) = 1
               /\ notifications = ScenarioNotifications
        /\ \A p \in 1..Len(notifications) :
               /\ notifications[p].kind = "workspaceAdded" =>
                      notifications[p].arg = CountBefore(notifications, p)
               /\ notifications[p].kind = "workspaceRemoved" =>
                      /\ 0 <= notifications[p].arg
                      /\ notifications[p].arg < CountBefore(notifications, p)
        /\ CountBefore(notifications, Len(notifications) + 1) = workspacesCount
        /\ dsOp.op = "appendWorkspace" =>
               notifications[Len(notifications)] = Effect("workspaceAdded", Size(dsOp.pre))
        /\ dsOp.op = "removeWorkspace" =>
               notifications[Len(notifications)] = Effect("workspaceRemoved", dsOp.num)

C13_Witness ==
    /\ ScenarioRan
    /\ pendingAdd = 0
    /\ dsOp.pre = <<1, 2, 3, 4>>
    /\ m_workspaces = <<1, 3, 4>>
    /\ Len(notifications) = 5

(***************************************************************************)
(* Workspace membership                                                    *)
(***************************************************************************)
\* C14: when removeWorkspace removes a workspace, every window that was a
\* member of it is a member of no workspace afterwards, and the only object
\* deleted is the Workspace; in every state of the running shell a window
\* that is a member of a workspace is a member of one in the collection.
C14_RemovalReleasesMembers ==
    dsStatus = "running" =>
        /\ \A window \in Windows :
               windowWorkspace[window] # NoWorkspace =>
                   windowWorkspace[window] \in Range(m_workspaces)
        /\ RemovedInRange =>
               /\ \A window \in dsOp.members : windowWorkspace[window] = NoWorkspace
               /\ OfKind(dsEffects, "delete") = <<Effect("delete", At(dsOp.pre, dsOp.num))>>

C14_Witness ==
    /\ RemovedInRange
    /\ dsOp.members # {}
    /\ \E window \in Windows \ dsOp.members :
           /\ windowWorkspace[window] # NoWorkspace
           /\ IndexOf(m_workspaces, windowWorkspace[window])
                  < IndexOf(dsOp.pre, windowWorkspace[window])

(***************************************************************************)
(* Window list                                                             *)
(***************************************************************************)
\* C15: appending a window that is already in the window list adds no
\* entry and emits nothing, so the list holds each window at most once and
\* a window mapped twice is announced once.
C15_SecondAppendIsIgnored ==
    /\ \A window \in Windows :
           Cardinality({k \in 1..Len(m_windows) : m_windows[k] = window}) <= 1
    /\ (dsOp.op = "appendWindow" /\ dsOp.num \in Range(dsOp.pre)) =>
           /\ m_windows = dsOp.pre
           /\ dsEffects = <<>>

(***************************************************************************)
(* Window destruction                                                      *)
(***************************************************************************)
\* The last handler ran the destroy script of a chrome: the ScriptAction of
\* a destroy animation at its end, or onSurfaceDestroyed for a window type
\* that has no animation or whose animation runs the script at its start.
TornDown ==
    \/ chOp.op = "ScriptAction"
    \/ /\ chOp.op = "surfaceDestroyed"
       /\ \/ DestroyAnimationOf(windowType[chOp.surface]) = "none"
          \/ ScriptActionRunsAtStart(DestroyAnimationOf(windowType[chOp.surface]))

\* The parent saved for the surface has no chrome any more, or there is none.
ParentGone(surface) ==
    \/ parentWlSurface[surface] = NoSurface
    \/ chromeState[parentWlSurface[surface]] = "destroyed"

\* C16: destroying a window whose saved parent no longer exists, or that has
\* no parent, raises no error: nothing is asked of the missing item and the
\* chrome is destroyed all the same.  takeFocus is called only on the item
\* the lookup of the parent returned, once.
C16_MissingParentIsSilent ==
    TornDown =>
        /\ chromeState[chOp.surface] = "destroyed"
        /\ OfKind(chEffects, "destroy") = <<Effect("destroy", chOp.surface)>>
        /\ ParentGone(chOp.surface) => chOp.item = NoItem
        /\ chOp.item \in {NoItem, parentWlSurface[chOp.surface]}
        /\ OfKind(chEffects, "takeFocus") =
               IF chOp.item # NoItem THEN <<Effect("takeFocus", chOp.item)>> ELSE <<>>
        /\ \A k \in 1..Len(chEffects) :
               chEffects[k].kind \in {"bufferLocked", "start", "takeFocus", "destroy"}

C16_Witness ==
    /\ TornDown
    /\ parentWlSurface[chOp.surface] # NoSurface
    /\ chromeState[parentWlSurface[chOp.surface]] = "destroyed"
    /\ chromeState[chOp.surface] = "destroyed"
    /\ OfKind(chEffects, "takeFocus") = <<>>

\* The position of the first effect of a kind in an effect list, 0 when
\* there is none.
PositionOf(effects, kind) ==
    IF \E k \in 1..Len(effects) : effects[k].kind = kind
    THEN CHOOSE k \in 1..Len(effects) :
             effects[k].kind = kind /\ \A j \in 1..(k - 1) : effects[j].kind # kind
    ELSE 0

\* C17: whenever a chrome is destroyed, whatever its window type, the step
\* that destroys it calls giveFocusToParent first and chrome.destroy() after
\* it, as its last act; the focus never goes to the chrome being destroyed.
C17_FocusBeforeDestroy ==
    [][\A surface \in Surfaces :
           (chromeState[surface] # "destroyed" /\ chromeState'[surface] = "destroyed") =>
               /\ chOp'.surface = surface
               /\ chEffects'[Len(chEffects')] = Effect("destroy", surface)
               /\ PositionOf(chEffects', "destroy") = Len(chEffects')
               /\ chOp'.item # NoItem =>
                      /\ PositionOf(chEffects', "takeFocus") > 0
                      /\ PositionOf(chEffects', "takeFocus") < PositionOf(chEffects', "destroy")
               /\ \A k \in 1..Len(chEffects') :
                      chEffects'[k].kind = "takeFocus" => chEffects'[k].arg # surface]_vars

C17_Witness ==
    /\ chOp.op = "ScriptAction"
    /\ windowType[chOp.surface] = "Qt.SubWindow"
    /\ chOp.item # NoItem
    /\ chEffects = <<Effect("takeFocus", chOp.item), Effect("destroy", chOp.surface)>>
    /\ chromeState[chOp.item] = "alive"

(***************************************************************************)
(* Saved window type and parent                                            *)
(***************************************************************************)
\* The step delivers a window-type-changed event for the surface.
TypeEvent(surface) ==
    chromeState'[surface] = "alive" /\ shellWindowType'[surface] # shellWindowType[surface]

\* The step delivers a parent-surface-changed event for the surface.
ParentEvent(surface) ==
    /\ chromeState'[surface] = "alive"
    /\ shellParentWlSurface'[surface] # shellParentWlSurface[surface]

\* C18: in any interleaving of window-type-changed and parent-surface-changed
\* events the chrome saves the value of each event and leaves the other
\* saved value alone, and nothing else changes a saved value, so each holds
\* what the last event of its kind set.  When the surface is destroyed the
\* saved window type chooses the destroy animation (or none), and the focus
\* goes to nothing but the item of the saved parent.
C18_LatestTypeAndParentWin ==
    [][\A surface \in Surfaces :
           /\ TypeEvent(surface) =>
                  /\ windowType'[surface] = shellWindowType'[surface]
                  /\ parentWlSurface'[surface] = parentWlSurface[surface]
           /\ ParentEvent(surface) =>
                  /\ parentWlSurface'[surface] = shellParentWlSurface'[surface]
                  /\ windowType'[surface] = windowType[surface]
           /\ ~TypeEvent(surface) => windowType'[surface] = windowType[surface]
           /\ ~ParentEvent(surface) => parentWlSurface'[surface] = parentWlSurface[surface]
           /\ (chromeState[surface] = "alive" /\ chromeState'[surface] # "alive") =>
                  chromeState'[surface] =
                      IF \/ DestroyAnimationOf(windowType[surface]) = "none"
                         \/ ScriptActionRunsAtStart(DestroyAnimationOf(windowType[surface]))
                      THEN "destroyed"
                      ELSE DestroyAnimationOf(windowType[surface])
           /\ (chromeState[surface] # "destroyed" /\ chromeState'[surface] = "destroyed") =>
                  \A k \in 1..Len(chEffects') :
                      chEffects'[k].kind = "takeFocus" =>
                          chEffects'[k].arg = parentWlSurface[surface]]_vars

C18_Witness ==
    /\ chOp.op = "surfaceDestroyed"
    /\ chromeState[chOp.surface] = "transientDestroyAnimation"
    /\ windowType[chOp.surface] = "Qt.SubWindow"
    /\ parentWlSurface[chOp.surface] # NoSurface
    /\ shellParentWlSurface[chOp.surface] = NoSurface
    /\ windowType[parentWlSurface[chOp.surface]] = "Qt.ToolTip"

\* C19 as stated: once an event has saved a window type for a surface, no
\* later step changes the saved type.
C19_KindIsImmutable ==
    [][\A surface \in observed : windowType'[surface] = windowType[surface]]_vars

\* C19, amended: the saved window type is not fixed by the first event.
\* Every window-type-changed event replaces it with the type the shell
\* surface has then; nothing else changes it, and it no longer changes once
\* the surface is destroyed.
C19_KindFollowsLatestEvent ==
    [][\A surface \in Surfaces :
           /\ TypeEvent(surface) => windowType'[surface] = shellWindowType'[surface]
           /\ windowType'[surface] # windowType[surface] =>
                  /\ TypeEvent(surface)
                  /\ chromeState[surface] = "alive"
                  /\ surface \in observed']_vars

C19_Witness ==
    /\ chOp.op = "windowTypeChanged"
    /\ chOp.surface \in observed
    /\ windowType[chOp.surface] = "Qt.Window"
    /\ \E other \in Surfaces \ {chOp.surface} : windowType[other] = "Qt.Popup"

(***************************************************************************)
(* Minimize and unminimize                                                 *)
(***************************************************************************)
\* The last handler started the animation.
Started(animation) == Effect("start", animation) \in Range(mzEffects)

\* C21: whenever minimizeAnimation is started the window's minimized flag
\* is true already, and whenever unminimizeAnimation is started it is false
\* already: an animation is started only by the handler of the change that
\* set the flag, never for a state the flag does not have.
C21_FlagCommittedBeforeAnimation ==
    /\ Started("minimizeAnimation") =>
           /\ mzOp.op = "minimizedChanged"
           /\ minimized
           /\ ~Started("unminimizeAnimation")
    /\ Started("unminimizeAnimation") =>
           /\ mzOp.op = "minimizedChanged"
           /\ ~minimized
           /\ ~Started("minimizeAnimation")

C21_Witness ==
    /\ Started("minimizeAnimation")
    /\ minimized
    /\ minimizeAnimation
    /\ mzOp.position # Point(0, 0)

(***************************************************************************)
(* Start-up                                                                *)
(***************************************************************************)
\* The effects of the last DesktopShell and ShellManager operations that
\* use the binding of the shell global.
UsesOfShell ==
    SelectSeq(dsEffects, LAMBDA e : e.kind \in {"request add_workspace",
                                                "request desktop_ready"})
        \o OfKind(smEffects, "connect shell")

C23_AppendEmitsNewLastIndex ==
    dsOp.op = "appendWorkspace" =>
        /\ dsEffects = <<Effect("workspaceAdded", Size(dsOp.pre)),
                         Effect("workspacesChanged", 0)>>
        /\ workspacesCount = Size(dsOp.pre) + 1
        /\ SubSeq(m_workspaces, 1, Size(dsOp.pre)) = dsOp.pre
        /\ workspaceAt(workspacesCount - 1) \notin Range(dsOp.pre)
        /\ IndexOf(m_workspaces, workspaceAt(workspacesCount - 1)) = Size(dsOp.pre)

C23_Witness ==
    /\ dsOp.op = "appendWorkspace"
    /\ deleted # {}
    /\ Size(dsOp.pre) >= 2
    /\ dsEffects[1] = Effect("workspaceAdded", 2)
    /\ allocated = 4

\* C24: DesktopShell::create sends its four add_workspace requests and
\* after them, as the last thing it does, desktop_ready, once;
\* ShellManager::create asks for its 4 workspaces once and after that, as
\* the last thing it does, emits ready, once.  Nothing but create() signals
\* readiness.
C24_WorkspacesRequestedBeforeReady ==
    /\ dsOp.op = "create" =>
           /\ SubSeq(dsEffects, 1, 4) = AddWorkspaceRequests(4)
           /\ Size(OfKind(dsEffects, "request add_workspace")) = 4
           /\ OfKind(dsEffects, "request desktop_ready")
                  = <<Effect("request desktop_ready", 0)>>
           /\ PositionOf(dsEffects, "request desktop_ready") = Len(dsEffects)
    /\ OfKind(dsEffects, "request desktop_ready") # <<>> => dsOp.op = "create"
    /\ smOp.op = "create" =>
           /\ OfKind(smEffects, "addWorkspaces") = <<Effect("addWorkspaces", 4)>>
           /\ OfKind(smEffects, "ready") = <<Effect("ready", 0)>>
           /\ PositionOf(smEffects, "addWorkspaces") < PositionOf(smEffects, "ready")
           /\ PositionOf(smEffects, "ready") = Len(smEffects)
    /\ OfKind(smEffects, "ready") # <<>> => smOp.op = "create"

C24_Witness ==
    /\ created = {"DesktopShell", "ShellManager"}
    /\ dsOp.op = "create"
    /\ dsOp.num = 2
    /\ pendingAdd = 2
    /\ smOp.op = "create"
    /\ Len(dsEffects) = 9

(***************************************************************************)
(* End of the window lifecycle                                             *)
(***************************************************************************)
\* The kinds of window whose chrome has a destroy animation: top-level,
\* transient child and popup.
HasDestroyAnimation(type) == DestroyAnimationOf(type) # "none"

\* A chrome is destroyed by one chrome.destroy() and stays destroyed: a
\* step destroys the chrome exactly when it calls destroy() for it, it
\* calls it once, a destroyed chrome enters no other state, and a chrome
\* whose surface was destroyed is destroyed in the end.
DestroyedOnceAndForAll ==
    /\ [][\A surface \in Surfaces :
              /\ chromeState[surface] = "destroyed" => chromeState'[surface] = "destroyed"
              /\ chromeState[surface] # "alive" => chromeState'[surface] # "alive"
              /\ Len(SelectSeq(chEffects', LAMBDA e : e = Effect("destroy", surface)))
                     = IF chromeState[surface] # "destroyed"
                          /\ chromeState'[surface] = "destroyed"
                       THEN 1 ELSE 0]_vars
    /\ \A surface \in Surfaces :
           (chromeState[surface] # "alive") ~> (chromeState[surface] = "destroyed")

\* C25: after the surface-destroyed event the chrome is in the end
\* destroyed, once, and enters no other state afterwards; the handler of
\* the event destroys it at once when the window is not a top-level, a
\* transient child or a popup, and otherwise starts the destroy animation
\* of the kind and leaves the destruction to the end of that animation.
C25_DestroyedAtEndOfTransition ==
    /\ DestroyedOnceAndForAll
    /\ [][\A surface \in Surfaces :
              (chromeState[surface] = "alive" /\ chromeState'[surface] # "alive") =>
                  chromeState'[surface] =
                      IF HasDestroyAnimation(windowType[surface])
                      THEN DestroyAnimationOf(windowType[surface])
                      ELSE "destroyed"]_vars

(***************************************************************************)
(* updateShell with an unchanged selection                                 *)
(***************************************************************************)
\* The step runs updateShell with a current handler: a scan of the handler
\* directories or a change of a registered handler's willing or priority
\* property.  (deregisterHandler runs it only after clearing the current
\* handler.)
Reevaluates ==
    /\ smOp'.op \in {"loadHandlers", "willingChanged", "priorityChanged"}
    /\ m_handlers' # {}

\* C26: a run of updateShell that selects the handler that is current
\* already changes nothing: the current handler stays, no handler's loaded
\* flag is written, shellChanged is not emitted, and the manager keeps
\* running.
C26_SameSelectionChangesNothing ==
    [][(/\ Reevaluates
        /\ min_element(willing', priority', values(m_handlers')) = m_currentHandler) =>
           /\ m_currentHandler' = m_currentHandler
           /\ loaded' = loaded
           /\ smEffects' = <<>>
           /\ smStatus' = "running"]_vars

C26_Witness ==
    /\ smOp.op = "priorityChanged"
    /\ m_currentHandler \in m_handlers
    /\ smOp.handler # m_currentHandler
    /\ willing[smOp.handler] = willing[m_currentHandler]
    /\ min_element(willing, priority, values(m_handlers)) = m_currentHandler
    /\ loaded = [h \in Handlers |-> h = m_currentHandler]
    /\ smEffects = <<>>

(***************************************************************************)
(* windowUnmapped                                                          *)
(***************************************************************************)
\* C27: one run of windowUnmapped(w) leaves a window list without w, the
\* other windows in it in the order they had, and emits windowsChanged;
\* the list holds the windows appended and not unmapped since: appendWindow
\* adds its window to them, the unmapped event takes its window from them.
C27_UnmappedRemovesWindow ==
    /\ dsOp.op = "unmapped" =>
           LET handled == windowUnmapped(dsOp.pre, dsOp.num, 1)
           IN  /\ dsOp.num \notin Range(handled.list)
               /\ handled.list = SelectSeq(dsOp.pre, LAMBDA w : w # dsOp.num)
               /\ handled.effects = <<Effect("windowsChanged", 0)>>
               /\ Range(m_windows) = Range(dsOp.pre) \ {dsOp.num}
    /\ dsOp.op = "appendWindow" =>
           Range(m_windows) = Range(dsOp.pre) \cup {dsOp.num}

(***************************************************************************)
(* Minimize and unminimize as a round trip                                 *)
(***************************************************************************)
\* C28: every change of the minimized flag to true records the position
\* the window has at that moment and sends the window to the task icon,
\* and every change to false sends the window to the recorded position and
\* to no other.
C28_MinimizeUnminimizeRoundTrip ==
    mzOp.op = "minimizedChanged" =>
        IF minimized
        THEN /\ moveItemPosition = mzOp.position
             /\ OfKind(mzEffects, "animateTo")
                    = <<Effect("animateTo", taskIconGeometry)>>
        ELSE /\ OfKind(mzEffects, "animateTo")
                    = <<Effect("animateTo", moveItemPosition)>>
             /\ animateTarget = moveItemPosition

====
